---- MODULE Spec2Model ----
(***************************************************************************)
(* Table Count Comparator (src/app.py): the report-line parser             *)
(* (find_table_name, pick_best_count, candidate_numbers_from_parts,        *)
(* parse_text_to_df) and the reconciliation (compare_dfs), as run by the   *)
(* script body once both files are uploaded.                               *)
(*                                                                         *)
(* Text is modelled character by character: a Python str is a TLA+ string, *)
(* read with Len and SubSeq.  An optional value (Optional[int],            *)
(* Optional[str]) is the empty tuple (None) or a one-element tuple.        *)
(***************************************************************************)
EXTENDS Integers, Sequences, FiniteSets, TLC

(***************************************************************************)
(* Characters and strings                                                  *)
(***************************************************************************)
None == <<>>

Some(v) == <<v>>

\* The printable ASCII characters in code order (str comparison, sorting); the
\* grave accent, which a TLA+ string cannot hold, occurs in no input line.
AsciiChars == " !\"#$%&'()*+,-./0123456789:;<=>?@ABCDEFGHIJKLMNOPQRSTUVWXYZ[\\]^_abcdefghijklmnopqrstuvwxyz{|}~"

UpperChars == "ABCDEFGHIJKLMNOPQRSTUVWXYZ"

LowerChars == "abcdefghijklmnopqrstuvwxyz"

DigitChars == "0123456789"

\* s[i-1:i] of Python: the character at i, "" outside the string.
At(s, i) == IF i >= 1 /\ i <= Len(s) THEN SubSeq(s, i, i) ELSE ""

\* s[i-1:] of Python, i 1-based.
From(s, i) == SubSeq(s, i, Len(s))

IndexIn(chars, c) ==
  IF \E i \in 1..Len(chars) : At(chars, i) = c
    THEN CHOOSE i \in 1..Len(chars) : At(chars, i) = c
    ELSE 0

CharsOf(chars) == {At(chars, i) : i \in 1..Len(chars)}

DigitSet == CharsOf(DigitChars)

UpperSet == CharsOf(UpperChars)

LowerSet == CharsOf(LowerChars)

\* ord(c), tabulated
OrdOf == [c \in CharsOf(AsciiChars) |-> IndexIn(AsciiChars, c)]

Ord(c) == OrdOf[c]

\* int(c) of a digit, tabulated
DigitValueOf == [c \in DigitSet |-> IndexIn(DigitChars, c) - 1]

LowerOf == [c \in UpperSet |-> At(LowerChars, IndexIn(UpperChars, c))]

UpperOf == [c \in LowerSet |-> At(UpperChars, IndexIn(LowerChars, c))]

IsDigit(c) == c \in DigitSet

IsAlpha(c) == c \in UpperSet \/ c \in LowerSet

\* \w of re
IsWord(c) == IsAlpha(c) \/ IsDigit(c) \/ c = "_"

\* what str.strip() removes
SpaceSet == {" ", "\t", "\n", "\r", "\f"}

IsSpace(c) == c \in SpaceSet

LowerChar(c) == IF c \in UpperSet THEN LowerOf[c] ELSE c

UpperChar(c) == IF c \in LowerSet THEN UpperOf[c] ELSE c

RECURSIVE MapChars(_, _, _)
MapChars(s, i, up) ==
  IF i > Len(s) THEN ""
  ELSE (IF up THEN UpperChar(At(s, i)) ELSE LowerChar(At(s, i))) \o MapChars(s, i + 1, up)

\* str.lower()
Lower(s) == MapChars(s, 1, FALSE)

\* str.upper()
Upper(s) == MapChars(s, 1, TRUE)

\* sub in s
Contains(s, sub) ==
  \E i \in 1..(Len(s) - Len(sub) + 1) : SubSeq(s, i, i + Len(sub) - 1) = sub

\* str.strip()
Strip(s) ==
  LET keep == {i \in 1..Len(s) : ~IsSpace(At(s, i))}
  IN  IF keep = {} THEN ""
      ELSE SubSeq(s, CHOOSE i \in keep : \A j \in keep : i <= j,
                     CHOOSE i \in keep : \A j \in keep : i >= j)

\* re.sub(r'^[^\w]+|[^\w]+$', '', s)
StripNonWord(s) ==
  LET keep == {i \in 1..Len(s) : IsWord(At(s, i))}
  IN  IF keep = {} THEN ""
      ELSE SubSeq(s, CHOOSE i \in keep : \A j \in keep : i <= j,
                     CHOOSE i \in keep : \A j \in keep : i >= j)

\* str.replace(',', '')
RECURSIVE RemoveCommas(_)
RemoveCommas(s) ==
  IF s = "" THEN ""
  ELSE (IF At(s, 1) = "," THEN "" ELSE At(s, 1)) \o RemoveCommas(From(s, 2))

\* int(s) of a string of decimal digits
RECURSIVE IntOf(_)
IntOf(s) ==
  IF s = "" THEN 0
  ELSE 10 * IntOf(SubSeq(s, 1, Len(s) - 1)) + DigitValueOf[At(s, Len(s))]

\* a < b of Python str (code-point order)
RECURSIVE StrLess(_, _)
StrLess(a, b) ==
  IF b = "" THEN FALSE
  ELSE IF a = "" THEN TRUE
  ELSE IF At(a, 1) = At(b, 1) THEN StrLess(From(a, 2), From(b, 2))
  ELSE Ord(At(a, 1)) < Ord(At(b, 1))

\* str.split(sep) for a one-character sep
RECURSIVE Split(_, _)
Split(s, sep) ==
  LET hits == {i \in 1..Len(s) : At(s, i) = sep}
  IN  IF hits = {} THEN <<s>>
      ELSE LET i == CHOOSE h \in hits : \A g \in hits : h <= g
           IN  <<SubSeq(s, 1, i - 1)>> \o Split(From(s, i + 1), sep)

\* \b of re at the gap before position i (1 .. Len(s)+1)
WordBoundary(s, i) ==
  LET before == i > 1 /\ IsWord(At(s, i - 1))
      after  == i <= Len(s) /\ IsWord(At(s, i))
  IN  before # after

\* re.search(r'\b' + w + r'\b', s, re.IGNORECASE) for a literal word w
HasWholeWord(s, w) ==
  LET ls == Lower(s)
      lw == Lower(w)
  IN  \E i \in 1..(Len(s) - Len(w) + 1) :
        /\ SubSeq(ls, i, i + Len(w) - 1) = lw
        /\ WordBoundary(s, i)
        /\ WordBoundary(s, i + Len(w))

(***************************************************************************)
(* _num_re = (\d{1,3}(?:,\d{3})*|\d+)(?!\.\d), with re's backtracking      *)
(***************************************************************************)
MinOf(S) == CHOOSE a \in S : \A b \in S : a <= b

MaxOf(S) == CHOOSE a \in S : \A b \in S : a >= b

\* the length of the run of digits starting at i
RECURSIVE DigitRun(_, _)
DigitRun(s, i) == IF IsDigit(At(s, i)) THEN 1 + DigitRun(s, i + 1) ELSE 0

\* how many groups ,\d{3} follow one another from position i
RECURSIVE CommaGroups(_, _)
CommaGroups(s, i) ==
  IF At(s, i) = "," /\ IsDigit(At(s, i + 1)) /\ IsDigit(At(s, i + 2)) /\ IsDigit(At(s, i + 3))
    THEN 1 + CommaGroups(s, i + 4)
    ELSE 0

\* (?!\.\d) after a match ending at e
LookaheadOk(s, e) == ~(At(s, e + 1) = "." /\ IsDigit(At(s, e + 2)))

\* The end of the match of _num_re that starts at i, 0 when there is none.  The
\* first alternative is tried first, greedy and then backing off (fewer groups,
\* then fewer leading digits); the second only when the first fails.
NumMatchAt(s, i) ==
  LET endOf(alt1, n, alt2) ==
        IF alt1 # {}
          THEN i + n + 4 * MaxOf({c[2] : c \in {d \in alt1 : d[1] = n}}) - 1
        ELSE IF alt2 # {} THEN i + MaxOf(alt2) - 1
        ELSE 0
      tried(alt1, alt2) ==
        endOf(alt1, IF alt1 # {} THEN MaxOf({c[1] : c \in alt1}) ELSE 0, alt2)
      alts(run) ==
        tried({c \in (1..(IF run > 3 THEN 3 ELSE run)) \X (0..Len(s)) :
                 /\ c[2] <= CommaGroups(s, i + c[1])
                 /\ LookaheadOk(s, i + c[1] + 4 * c[2] - 1)},
              {m \in 1..run : LookaheadOk(s, i + m - 1)})
  IN  alts(DigitRun(s, i))

\* _num_re.search(s): None, or the span <<first, last>> of the leftmost match
NumSearchFrom(s, from) ==
  LET spanOf(ends) ==
        IF \A i \in DOMAIN ends : ends[i] = 0 THEN None
        ELSE LET first(i) == Some(<<i, ends[i]>>)
             IN  first(MinOf({i \in DOMAIN ends : ends[i] > 0}))
  IN  spanOf([i \in from..Len(s) |-> NumMatchAt(s, i)])

NumSearch(s) == NumSearchFrom(s, 1)

\* _num_re.finditer(s): the spans of the successive non-overlapping matches
RECURSIVE NumFindIter(_, _)
NumFindIter(s, from) ==
  LET rest(m) == IF m = None THEN <<>> ELSE <<m[1]>> \o NumFindIter(s, m[1][2] + 1)
  IN  rest(NumSearchFrom(s, from))

\* _num_re.fullmatch(s)
NumFullMatch(s) ==
  LET allDigits(a, b) == \A j \in a..b : IsDigit(At(s, j))
  IN  \/ \E n \in 1..3 : \E k \in 0..Len(s) :
           /\ Len(s) = n + 4 * k
           /\ allDigits(1, n)
           /\ \A g \in 0..(k - 1) :
                At(s, n + 4 * g + 1) = "," /\ allDigits(n + 4 * g + 2, n + 4 * g + 4)
      \/ Len(s) >= 1 /\ allDigits(1, Len(s))

\* int(m.group(1).replace(',', '')) of a match span
MatchText(s, span) == SubSeq(s, span[1], span[2])

MatchValue(s, span) == IntOf(RemoveCommas(MatchText(s, span)))

(***************************************************************************)
(* The report lines the uploaded files are made of                         *)
(***************************************************************************)
\* report lines of the two uploaded files
ReportLines ==
  {"TABLE | X | desc | 100 |",
   "TABLE | X | desc | 150 |",
   "TABLE | x | desc | N/A |",
   "TABLE | Y | desc | 100 |",
   "orders | 42",
   "12 | 7"}

\* report lines for the parser alone
ParserLines ==
  {"TABLE | CUST | Customers | 1,250 |",
   "TABLE | cust | Customers | 42 |",
   "TABLE | Cust | Customers | N/A |",
   "orders | 42",
   "t 500 ---------------------- 700 rows 500",
   "1,024 records 2,048 MB | big",
   "size xTABLE | 123",
   "a 70 b 80",
   "12 | 7",
   "hello world"}

InputLines == ReportLines \cup ParserLines

(***************************************************************************)
(* Helpers: parsing heuristics                                             *)
(***************************************************************************)
\* parts = [p.strip() for p in line.split('|')]
extract_tokens_from_line(line) ==
  LET raw == Split(line, "|") IN [i \in 1..Len(raw) |-> Strip(raw[i])]

\* table_label_re.search(p): \bTABLE\b, ignoring case
HasTableLabel(p) == HasWholeWord(p, "TABLE")

\* the words find_table_name refuses as a table name
StructuralWords ==
  {"row", "length", "size", "mb", "bytes", "type", "desc", "description", "count", "records"}

HasStructuralWord(p) == \E w \in StructuralWords : HasWholeWord(p, w)

HasLetter(p) == \E i \in 1..Len(p) : IsAlpha(At(p, i))

\* [A-Za-z0-9_\-\.]
IsNameChar(c) == IsWord(c) \/ c = "-" \/ c = "."

RECURSIVE SkipSpaces(_, _)
SkipSpaces(s, i) == IF IsSpace(At(s, i)) THEN SkipSpaces(s, i + 1) ELSE i

RECURSIVE NameRun(_, _)
NameRun(s, i) == IF IsNameChar(At(s, i)) THEN 1 + NameRun(s, i + 1) ELSE 0

\* re.search(r'TABLE\s*\|\s*([A-Za-z0-9_\-\.]+)', line, re.IGNORECASE): group 1
TableThenPipe(line) ==
  LET nameAt(i) == SkipSpaces(line, SkipSpaces(line, i + 5) + 1)
      lower == Lower(line)
      hits == {i \in 1..(Len(line) - 4) :
                 /\ SubSeq(lower, i, i + 4) = "table"
                 /\ At(line, SkipSpaces(line, i + 5)) = "|"
                 /\ NameRun(line, nameAt(i)) > 0}
  IN  IF hits = {} THEN None
      ELSE LET i == MinOf(hits)
           IN  Some(SubSeq(line, nameAt(i), nameAt(i) + NameRun(line, nameAt(i)) - 1))

\* Step 1 of find_table_name: the first non-empty cleaned part among the three
\* that follow a part holding the TABLE label.
NameAfterLabel(parts) ==
  LET ok == {<<i, j>> \in (1..Len(parts)) \X (1..Len(parts)) :
               /\ HasTableLabel(parts[i])
               /\ j > i /\ j <= i + 3
               /\ StripNonWord(Strip(parts[j])) # ""}
  IN  IF ok = {} THEN None
      ELSE LET i == MinOf({c[1] : c \in ok})
               j == MinOf({c[2] : c \in {d \in ok : d[1] = i}})
           IN  Some(StripNonWord(Strip(parts[j])))

\* Step 2 of find_table_name: the first part that is not a number, holds a
\* letter and holds no structural word.
FirstObjectToken(parts) ==
  LET ok == {i \in 1..Len(parts) :
               LET p_clean == Strip(parts[i])
               IN  /\ p_clean # ""
                   /\ ~NumFullMatch(RemoveCommas(p_clean))
                   /\ HasLetter(p_clean)
                   /\ ~HasStructuralWord(p_clean)}
  IN  IF ok = {} THEN None ELSE Some(StripNonWord(Strip(parts[MinOf(ok)])))

find_table_name(parts, line) ==
  LET step2(name) == IF name # None THEN name ELSE TableThenPipe(line)
      step1(name) == IF name # None THEN name ELSE step2(FirstObjectToken(parts))
  IN  step1(NameAfterLabel(parts))

(***************************************************************************)
(* candidate_numbers_from_parts: every integer token of the line, scored   *)
(***************************************************************************)
Pow10(k) == 10 ^ k

\* int(math.log10(val + 1) * 2) if val > 0 else 0: the largest k with
\* 10^k <= (val + 1)^2.  The square is computed in 32-bit integers: the token
\* values of the input lines are below 46,340 or above 1,000,000,000.
MagnitudeBoost(val) ==
  IF val > 0 THEN MaxOf({k \in 0..9 : Pow10(k) <= (val + 1) * (val + 1)}) ELSE 0

\* line[max(0, span_start-20):min(len(line), span_end+20)].lower()
Context(line, span) ==
  Lower(SubSeq(line,
               IF span[1] - 20 < 1 THEN 1 ELSE span[1] - 20,
               IF span[2] + 20 > Len(line) THEN Len(line) ELSE span[2] + 20))

\* re.search(r'\b' + re.escape(raw) + r'\s*(MB|KB|GB)\b', line, re.IGNORECASE)
FollowedBySizeUnit(line, raw) ==
  \E i \in 1..(Len(line) - Len(raw) + 1) :
    LET u == SkipSpaces(line, i + Len(raw))
    IN  /\ WordBoundary(line, i)
        /\ SubSeq(line, i, i + Len(raw) - 1) = raw
        /\ Lower(At(line, u) \o At(line, u + 1)) \in {"mb", "kb", "gb"}
        /\ WordBoundary(line, u + 2)

\* score of one match of _num_re (the += and -= of the loop)
TokenScore(line, span) ==
  LET total(raw, val, ctx) ==
        (IF \E i \in 1..Len(raw) : At(raw, i) = "," THEN 20 ELSE 0)
        + (IF val > 1000000000 THEN 0 - 50 ELSE MagnitudeBoost(val))
        + (IF Contains(ctx, "record") \/ Contains(ctx, "count") \/ Contains(ctx, "rows")
             THEN 30 ELSE 0)
        - (IF FollowedBySizeUnit(line, raw) THEN 25 ELSE 0)
  IN  total(MatchText(line, span), MatchValue(line, span), Context(line, span))

\* one candidate: (score, raw, val) of a match of _num_re in the line
ScoredToken(line, span) ==
  [score |-> TokenScore(line, span),
   raw   |-> MatchText(line, span),
   val   |-> MatchValue(line, span)]

\* candidates: the candidate of every match of _num_re in the line, in order
ScoredTokens(line) ==
  LET scored(spans) == [i \in 1..Len(spans) |-> ScoredToken(line, spans[i])]
  IN  scored(NumFindIter(line, 1))

\* by_val: one entry per value, at the place of the value's first token, holding
\* the first of its tokens that has the value's highest score (a dict keeps a
\* key's place when its value is replaced; the replacement needs score >).
CollapseByValue(cands) ==
  LET firsts == {i \in 1..Len(cands) : \A j \in 1..(i - 1) : cands[j].val # cands[i].val}
      best(v) ==
        LET topOf(same) ==
              LET firstAt(top) == cands[MinOf({i \in same : cands[i].score = top})]
              IN  firstAt(MaxOf({cands[i].score : i \in same}))
        IN  topOf({i \in 1..Len(cands) : cands[i].val = v})
      RECURSIVE build(_)
      build(i) ==
        IF i > Len(cands) THEN <<>>
        ELSE (IF i \in firsts THEN <<best(cands[i].val)>> ELSE <<>>) \o build(i + 1)
  IN  build(1)

\* the sort without reverse=True: by score, lowest first, stable
RECURSIVE SortByScoreAsc(_)
SortByScoreAsc(out) ==
  IF out = <<>> THEN <<>>
  ELSE LET move(at) ==
             <<out[at]>> \o
             SortByScoreAsc(SubSeq(out, 1, at - 1) \o SubSeq(out, at + 1, Len(out)))
           firstOf(low) == move(MinOf({i \in 1..Len(out) : out[i].score = low}))
       IN  firstOf(MinOf({out[i].score : i \in 1..Len(out)}))

\* out.sort(reverse=True, key=lambda x: x[0]): by score, highest first; the sort is
\* stable, so equal scores keep their order
RECURSIVE SortByScoreDesc(_)
SortByScoreDesc(out) ==
  IF out = <<>> THEN <<>>
  ELSE LET move(at) ==
             <<out[at]>> \o
             SortByScoreDesc(SubSeq(out, 1, at - 1) \o SubSeq(out, at + 1, Len(out)))
           firstOf(top) == move(MinOf({i \in 1..Len(out) : out[i].score = top}))
       IN  firstOf(MaxOf({out[i].score : i \in 1..Len(out)}))

\* out = [...] of by_val, sorted
candidate_numbers_from_parts(parts, line) ==
  SortByScoreDesc(CollapseByValue(ScoredTokens(line)))

(***************************************************************************)
(* pick_best_count: (count or None, reason)                                *)
(***************************************************************************)
Reason(how, idx, raw, score) == [how |-> how, idx |-> idx, raw |-> raw, score |-> score]

\* the value of the first integer token of a part
FirstNumber(p) == MatchValue(p, NumSearch(p)[1])

\* The index heuristics: the first part holding the table name, then the part two
\* places after it, then the first numeric part among the four after it.  None
\* when they pick nothing.  Indices are reported 0-based, as the code prints them.
PickByIndex(parts, table_name) ==
  LET numeric == [j \in 1..Len(parts) |-> NumSearch(parts[j]) # None]
      picked(j, how) ==
        Some([count |-> Some(FirstNumber(parts[j])), reason |-> Reason(how, j - 1, "", 0)])
      near(idx, after) ==
        IF idx = 0 THEN None
        ELSE IF idx + 2 <= Len(parts) /\ numeric[idx + 2]
          THEN picked(idx + 2, "picked from parts (near table name)")
        ELSE IF after # {}
          THEN picked(MinOf(after), "picked from parts (first numeric after table name)")
        ELSE None
      from(idx) ==
        near(idx, {j \in (idx + 1)..Len(parts) : idx > 0 /\ j <= idx + 4 /\ numeric[j]})
      first(named) == from(IF named = {} THEN 0 ELSE MinOf(named))
  IN  first({i \in 1..Len(parts) :
               parts[i] # "" /\ Contains(Lower(parts[i]), Lower(table_name))})

\* chosen = candidates[0]
PickByScore(parts, line) ==
  LET chosen(candidates) ==
        IF candidates # <<>>
          THEN [count  |-> Some(candidates[1].val),
                reason |-> Reason("picked by scoring", 0 - 1,
                                  candidates[1].raw, candidates[1].score)]
          ELSE [count |-> None, reason |-> Reason("no numeric candidate found", 0 - 1, "", 0)]
  IN  chosen(candidate_numbers_from_parts(parts, line))

\* table_name is None or Some(name)
pick_best_count(parts, table_name, line) ==
  LET orScore(byIndex) == IF byIndex # None THEN byIndex[1] ELSE PickByScore(parts, line)
  IN  orScore(IF table_name # None /\ table_name[1] # ""
                THEN PickByIndex(parts, table_name[1])
                ELSE None)

(***************************************************************************)
(* parse_text_to_df: a DataFrame is [columns, count_dtype, rows]           *)
(***************************************************************************)
\* text.splitlines(), for texts whose line breaks are "\n"
SplitLines(text) ==
  LET pieces == Split(text, "\n")
  IN  IF pieces[Len(pieces)] = "" THEN SubSeq(pieces, 1, Len(pieces) - 1) ELSE pieces

\* the loop skipping every line without the TABLE label
LineSkippedUnlessLabelled(line) ==
  Strip(line) = "" \/ ~Contains(Upper(line), "TABLE")

\* The two `continue`s of the loop: a blank line, and a line with no TABLE, no
\* '|' and no integer token.
LineSkipped(line) ==
  \/ Strip(line) = ""
  \/ /\ ~Contains(Upper(line), "TABLE")
     /\ ~Contains(line, "|")
     /\ NumSearch(line) = None

\* The dict appended to rows for one line.
ParseLine(line) ==
  LET row(table_name, picked) ==
        [raw_line     |-> line,
         TableName    |-> IF table_name # None THEN table_name[1] ELSE "",
         Count        |-> picked.count,
         parse_reason |-> picked.reason]
      named(parts, table_name) == row(table_name, pick_best_count(parts, table_name, line))
      split(parts) == named(parts, find_table_name(parts, line))
  IN  split(extract_tokens_from_line(line))

\* LineSkipped and ParseLine are functions of the line alone: tabulated over the
\* report lines the files are made of; a skipped line has the row None.
ParseLineOf ==
  [line \in InputLines |-> IF LineSkipped(line) THEN None ELSE Some(ParseLine(line))]

\* rows, after the loop over text.splitlines()
RECURSIVE ParsedRows(_)
ParsedRows(lines) ==
  IF lines = <<>> THEN <<>> ELSE ParseLineOf[lines[1]] \o ParsedRows(Tail(lines))

\* the rows at the indices in keep, in order (a boolean-mask selection)
RECURSIVE RowsAt(_, _, _)
RowsAt(rows, keep, i) ==
  IF i > Len(rows) THEN <<>>
  ELSE (IF i \in keep THEN <<rows[i]>> ELSE <<>>) \o RowsAt(rows, keep, i + 1)

\* df["key"] = df["TableName"].str.strip().str.lower()
WithKey(rows) ==
  [i \in 1..Len(rows) |->
     [raw_line     |-> rows[i].raw_line,
      TableName    |-> rows[i].TableName,
      Count        |-> rows[i].Count,
      parse_reason |-> rows[i].parse_reason,
      key          |-> Lower(Strip(rows[i].TableName))]]

\* df[df["TableName"].str.strip() != ""]
DropUnnamed(rows) ==
  RowsAt(rows, {i \in 1..Len(rows) : Strip(rows[i].TableName) # ""}, 1)

\* drop_duplicates with keep="last"
DropDuplicatesKeepLast(rows) ==
  RowsAt(rows, {i \in 1..Len(rows) :
                  \A h \in (i + 1)..Len(rows) : rows[h].key # rows[i].key}, 1)

\* df.drop_duplicates(subset="key", keep="first")
DropDuplicates(rows) ==
  RowsAt(rows, {i \in 1..Len(rows) : \A h \in 1..(i - 1) : rows[h].key # rows[i].key}, 1)

\* The dtype pd.DataFrame(rows) gives the Count column: int64 when every count is
\* an int, float64 (None stored as NaN) when some are, object when none is.
CountDtype(rows) ==
  IF \A i \in 1..Len(rows) : rows[i].Count # None THEN "int64"
  ELSE IF \E i \in 1..Len(rows) : rows[i].Count # None THEN "float64"
  ELSE "object"

\* An empty list of rows gives a DataFrame with no columns, returned as it is.
parse_text_to_df(text) ==
  LET df(rows) ==
        IF rows = <<>>
          THEN [columns |-> FALSE, count_dtype |-> "object", rows |-> <<>>]
          ELSE [columns     |-> TRUE,
                count_dtype |-> CountDtype(rows),
                rows        |-> DropDuplicates(DropUnnamed(WithKey(rows)))]
  IN  df(ParsedRows(SplitLines(text)))

(***************************************************************************)
(* compare_dfs.  A count cell of the merged frame is Some(n), None or NaN.  *)
(*                                                                         *)
(* Two steps of compare_dfs are decided by the installed pandas, which the *)
(* repository does not pin:                                                *)
(*   keeps_nan   Series.where(cond, None) on a numeric column keeps NaN    *)
(*               (pandas 1.3 and later) or casts to object and stores None *)
(*               (earlier);                                                *)
(*   sorts_keys  an outer merge gives the keys in ascending order (pandas  *)
(*               2.2 and later) or in the order they first appear, the     *)
(*               left frame's first (earlier).                             *)
(***************************************************************************)
PandasBuilds ==
  {[keeps_nan |-> FALSE, sorts_keys |-> FALSE],
   [keeps_nan |-> TRUE,  sorts_keys |-> FALSE],
   [keeps_nan |-> TRUE,  sorts_keys |-> TRUE]}

NaN == <<"nan", "nan">>

\* pd.notna
NotNa(cell) == cell # None /\ cell # NaN

RowsWithKey(df, k) == {i \in 1..Len(df.rows) : df.rows[i].key = k}

\* the ascending order of a finite set of strings
RECURSIVE SortedKeys(_)
SortedKeys(K) ==
  IF K = {} THEN <<>>
  ELSE LET least == CHOOSE k \in K : \A o \in K \ {k} : StrLess(k, o)
       IN  <<least>> \o SortedKeys(K \ {least})

\* the keys of the two frames in the order they first appear, the left frame's
\* first
AppearanceKeys(df_before, df_after) ==
  LET keysOf(rows, seen) ==
        RowsAt([i \in 1..Len(rows) |-> rows[i].key],
               {i \in 1..Len(rows) :
                  /\ rows[i].key \notin seen
                  /\ \A h \in 1..(i - 1) : rows[h].key # rows[i].key}, 1)
  IN  keysOf(df_before.rows, {})
      \o keysOf(df_after.rows, {df_before.rows[i].key : i \in 1..Len(df_before.rows)})

\* the merge with its two frames exchanged
MergeKeysFramesSwapped(df_before, df_after, sorts_keys) ==
  IF sorts_keys
    THEN SortedKeys({df_before.rows[i].key : i \in 1..Len(df_before.rows)}
                    \cup {df_after.rows[i].key : i \in 1..Len(df_after.rows)})
    ELSE AppearanceKeys(df_after, df_before)

\* the order an outer merge gives the keys of the two frames
MergeKeys(df_before, df_after, sorts_keys) ==
  IF sorts_keys
    THEN SortedKeys({df_before.rows[i].key : i \in 1..Len(df_before.rows)}
                    \cup {df_after.rows[i].key : i \in 1..Len(df_after.rows)})
    ELSE AppearanceKeys(df_before, df_after)

\* pd.merge(a, b, on="key", how="outer"): one row per pair of rows with the same
\* key and one per unmatched row, in the order of the keys.  A side without a
\* row for the key gives no name and no count.
Merge(df_before, df_after, keys) ==
  LET RECURSIVE pairs(_, _)
      pairs(L, R) ==
        IF L = {} THEN {}
        ELSE LET l == MinOf(L) IN {<<l, r>> : r \in R} \cup pairs(L \ {l}, R)
      RECURSIVE seqOf(_)
      seqOf(P) ==
        IF P = {} THEN <<>>
        ELSE LET p == CHOOSE q \in P : \A o \in P :
                        q[1] < o[1] \/ (q[1] = o[1] /\ q[2] <= o[2])
             IN  <<p>> \o seqOf(P \ {p})
      rowsOf(k) ==
        LET joined(P) ==
              [i \in 1..Len(P) |->
                 [key              |-> k,
                  TableName_Before |-> IF P[i][1] = 0 THEN None
                                       ELSE Some(df_before.rows[P[i][1]].TableName),
                  Before_Count     |-> IF P[i][1] = 0 THEN None
                                       ELSE df_before.rows[P[i][1]].Count,
                  TableName_After  |-> IF P[i][2] = 0 THEN None
                                       ELSE Some(df_after.rows[P[i][2]].TableName),
                  After_Count      |-> IF P[i][2] = 0 THEN None
                                       ELSE df_after.rows[P[i][2]].Count]]
            sides(L, R) ==
              joined(seqOf(pairs(IF L = {} THEN {0} ELSE L, IF R = {} THEN {0} ELSE R)))
        IN  sides(RowsWithKey(df_before, k), RowsWithKey(df_after, k))
      RECURSIVE concat(_)
      concat(i) == IF i > Len(keys) THEN <<>> ELSE rowsOf(keys[i]) \o concat(i + 1)
  IN  concat(1)

\* merged[col].where(pd.notna(merged[col]), None) on a count column.  A missing
\* count of an object column becomes None.  In a numeric column (int64, float64)
\* it becomes None where `where` casts the column to object, and stays NaN where
\* `where` keeps the column's dtype: the pandas release decides (keeps_nan).
WhereNotNaElseNone(cell, dtype, keeps_nan) ==
  IF cell # None THEN cell
  ELSE IF dtype # "object" /\ keeps_nan THEN NaN
  ELSE None

\* int(r["After_Count"]) - int(r["Before_Count"]) raises ValueError on a NaN,
\* which is not None.
DiffRaises(r) ==
  /\ r.Before_Count # None /\ r.After_Count # None
  /\ (r.Before_Count = NaN \/ r.After_Count = NaN)

\* the difference taken the other way round
diff_val_swapped(r) ==
  IF r.Before_Count # None /\ r.After_Count # None
    THEN Some(r.Before_Count[1] - r.After_Count[1])
    ELSE None

\* diff_val where it returns
diff_val(r) ==
  IF r.Before_Count # None /\ r.After_Count # None
    THEN Some(r.After_Count[1] - r.Before_Count[1])
    ELSE None

status_row(r) ==
  IF r.Created = "YES" THEN "NEW TABLE"
  ELSE IF r.Deleted = "YES" THEN "DELETED TABLE"
  ELSE IF r.Before_Count # None /\ r.After_Count # None
    THEN IF r.Before_Count = r.After_Count THEN "MATCH" ELSE "MISMATCH"
  ELSE IF r.Present_Before /\ r.Present_After THEN "PRESENT (no counts)"
  ELSE "UNKNOWN"

\* One row of the merged frame with the columns compare_dfs adds up to Deleted.
WithFlags(m, dtype_before, dtype_after, keeps_nan) ==
  LET flags(before, after) ==
        [key            |-> m.key,
         TableName      |-> IF m.TableName_After # None THEN m.TableName_After[1]
                            ELSE IF m.TableName_Before # None THEN m.TableName_Before[1]
                            ELSE m.key,
         Before_Count   |-> before,
         After_Count    |-> after,
         Present_Before |-> NotNa(before),
         Present_After  |-> NotNa(after),
         Created        |-> IF NotNa(after) /\ ~NotNa(before) THEN "YES" ELSE "",
         Deleted        |-> IF NotNa(before) /\ ~NotNa(after) THEN "YES" ELSE ""]
  IN  flags(WhereNotNaElseNone(m.Before_Count, dtype_before, keeps_nan),
            WhereNotNaElseNone(m.After_Count, dtype_after, keeps_nan))

\* The result: [raised, rows]; raised is "" or the exception that ends the call.
compare_dfs(df_before, df_after, pandas) ==
  LET out(flagged) ==
        IF \E i \in 1..Len(flagged) : DiffRaises(flagged[i])
          THEN [raised |-> "ValueError", rows |-> <<>>]
          ELSE [raised |-> "",
                rows   |-> [i \in 1..Len(flagged) |->
                              [TableName    |-> flagged[i].TableName,
                               Before_Count |-> flagged[i].Before_Count,
                               After_Count  |-> flagged[i].After_Count,
                               Difference   |-> diff_val(flagged[i]),
                               Created      |-> flagged[i].Created,
                               Deleted      |-> flagged[i].Deleted,
                               Status       |-> status_row(flagged[i]),
                               key          |-> flagged[i].key]]]
      flag(merged) ==
        out([i \in 1..Len(merged) |->
               WithFlags(merged[i], df_before.count_dtype, df_after.count_dtype,
                         pandas.keeps_nan)])
  IN  IF ~df_before.columns \/ ~df_after.columns
        THEN [raised |-> "KeyError", rows |-> <<>>]
        ELSE flag(Merge(df_before, df_after,
                        MergeKeys(df_before, df_after, pandas.sorts_keys)))

(***************************************************************************)
(* The script body (lines 224-246): two uploaded files, parsed and compared *)
(***************************************************************************)
MaxLines == 2

MaxParseLines == 3

\* the texts of at most n lines over a set of lines, each line ended by "\n"
RECURSIVE TextsOver(_, _)
TextsOver(lines, n) ==
  IF n = 0 THEN {""}
  ELSE LET shorter == TextsOver(lines, n - 1)
       IN  shorter \cup {t \o l \o "\n" : t \in shorter, l \in lines}

VARIABLES
  pc,          \* where the script is: "idle", "parsed_before", "parsed_after", "done"
  f_before,    \* the decoded BEFORE file: None or Some(text)
  f_after,     \* the decoded AFTER file
  df_before,   \* parse_text_to_df(raw_before): None until parsed
  df_after,
  result       \* compare_dfs(df_before, df_after): None until compared

vars == <<pc, f_before, f_after, df_before, df_after, result>>

Init ==
  /\ pc = "idle"
  /\ f_before = None /\ f_after = None
  /\ df_before = None /\ df_after = None
  /\ result = None

UploadBefore ==
  /\ pc = "idle" /\ f_before = None
  /\ \E text \in TextsOver(ReportLines, MaxLines) : f_before' = Some(text)
  /\ UNCHANGED <<pc, f_after, df_before, df_after, result>>

UploadAfter ==
  /\ pc = "idle" /\ f_after = None
  /\ \E text \in TextsOver(ReportLines, MaxLines) : f_after' = Some(text)
  /\ UNCHANGED <<pc, f_before, df_before, df_after, result>>

\* if f_before and f_after: df_before = parse_text_to_df(raw_before)
ParseBefore ==
  /\ pc = "idle" /\ f_before # None /\ f_after # None
  /\ df_before' = Some(parse_text_to_df(f_before[1]))
  /\ pc' = "parsed_before"
  /\ UNCHANGED <<f_before, f_after, df_after, result>>

ParseAfter ==
  /\ pc = "parsed_before"
  /\ df_after' = Some(parse_text_to_df(f_after[1]))
  /\ pc' = "parsed_after"
  /\ UNCHANGED <<f_before, f_after, df_before, result>>

\* result = compare_dfs(df_before, df_after), with any of the pandas builds
Compare ==
  /\ pc = "parsed_after"
  /\ \E pandas \in PandasBuilds :
       result' = Some(compare_dfs(df_before[1], df_after[1], pandas))
  /\ pc' = "done"
  /\ UNCHANGED <<f_before, f_after, df_before, df_after>>

Next == UploadBefore \/ UploadAfter \/ ParseBefore \/ ParseAfter \/ Compare

Spec == Init /\ [][Next]_vars

(***************************************************************************)
(* parse_text_to_df alone, applied to one text                             *)
(***************************************************************************)
InitParser ==
  /\ pc = "idle"
  /\ f_before \in {Some(text) : text \in TextsOver(ParserLines, MaxParseLines)}
  /\ f_after = None
  /\ df_before = None /\ df_after = None
  /\ result = None

ApplyParse ==
  /\ pc = "idle" /\ df_before = None
  /\ df_before' = Some(parse_text_to_df(f_before[1]))
  /\ pc' = "parsed_before"
  /\ UNCHANGED <<f_before, f_after, df_after, result>>

NextParser == ApplyParse

SpecParser == InitParser /\ [][NextParser]_vars

(***************************************************************************)
(* Properties of compare_dfs, over the runs of the script (Spec)           *)
(***************************************************************************)
\* compare_dfs has returned a frame
Returned == pc = "done" /\ result[1].raised = ""

\* the keys of a parsed inventory
KeysOf(df) == {df.rows[i].key : i \in 1..Len(df.rows)}

\* the count an inventory holds for a key: None when the key is not in it or
\* its line gave no count
CountOf(df, k) ==
  IF k \in KeysOf(df)
    THEN df.rows[CHOOSE i \in 1..Len(df.rows) : df.rows[i].key = k].Count
    ELSE None

\* C1: every key that is in both inventories and has no count in at least one of
\* them has a row with status "PRESENT (no counts)", never NEW, DELETED, MATCH or
\* MISMATCH.
C1_AbsentCountIsPresentNoCount ==
  Returned =>
    \A i \in 1..Len(result[1].rows) :
      LET k == result[1].rows[i].key
      IN  (/\ k \in KeysOf(df_before[1]) /\ k \in KeysOf(df_after[1])
           /\ (CountOf(df_before[1], k) = None \/ CountOf(df_after[1], k) = None))
          => result[1].rows[i].Status = "PRESENT (no counts)"

\* C2: a row is created / NEW exactly when its key is in the after-inventory and
\* not in the before-inventory, and deleted / DELETED exactly when its key is in
\* the before-inventory and not in the after-inventory, whatever the counts.
C2_PresenceByKeyMembership ==
  Returned =>
    \A i \in 1..Len(result[1].rows) :
      LET r == result[1].rows[i]
          onlyAfter  == r.key \in KeysOf(df_after[1]) /\ r.key \notin KeysOf(df_before[1])
          onlyBefore == r.key \in KeysOf(df_before[1]) /\ r.key \notin KeysOf(df_after[1])
      IN  /\ (r.Created = "YES") <=> onlyAfter
          /\ (r.Status = "NEW TABLE") <=> onlyAfter
          /\ (r.Deleted = "YES") <=> onlyBefore
          /\ (r.Status = "DELETED TABLE") <=> onlyBefore

\* C3: for all inventories, an empty one included, compare_dfs returns exactly
\* one row per key of keys(before) \cup keys(after): as many rows as keys, no key
\* missing, none twice.
C3_OneRowPerKeyOfTheUnion ==
  pc = "done" =>
    /\ result[1].raised = ""
    /\ Len(result[1].rows) = Cardinality(KeysOf(df_before[1]) \cup KeysOf(df_after[1]))
    /\ {result[1].rows[i].key : i \in 1..Len(result[1].rows)}
         = KeysOf(df_before[1]) \cup KeysOf(df_after[1])

\* C4: when parse_text_to_df matched nothing on one side, compare_dfs still
\* returns without raising, one row per key of the other side, every row NEW when
\* the before side is empty and DELETED when the after side is empty.
C4_EmptyInventoryStillCompared ==
  (pc = "done" /\ (~df_before[1].columns \/ ~df_after[1].columns)) =>
    /\ result[1].raised = ""
    /\ Len(result[1].rows) = Cardinality(KeysOf(df_before[1]) \cup KeysOf(df_after[1]))
    /\ \A i \in 1..Len(result[1].rows) :
         /\ ~df_before[1].columns => result[1].rows[i].Status = "NEW TABLE"
         /\ ~df_after[1].columns => result[1].rows[i].Status = "DELETED TABLE"

\* C5: every row of the result has one of the five statuses NEW TABLE, DELETED
\* TABLE, MATCH, MISMATCH, PRESENT (no counts); no other status, such as
\* UNKNOWN, is produced.
C5_StatusInTheFiveValues ==
  Returned =>
    \A i \in 1..Len(result[1].rows) :
      result[1].rows[i].Status \in
        {"NEW TABLE", "DELETED TABLE", "MATCH", "MISMATCH", "PRESENT (no counts)"}

\* C6: in every row of the result the difference is set exactly when the two
\* inventories both hold a count for the key, and is then countAfter -
\* countBefore; a MATCH or MISMATCH row carries it (0 exactly for MATCH), a NEW,
\* DELETED or PRESENT (no counts) row has none.
C6_DifferenceIsAfterMinusBefore ==
  Returned =>
    \A i \in 1..Len(result[1].rows) :
      LET r  == result[1].rows[i]
          cb == CountOf(df_before[1], r.key)
          ca == CountOf(df_after[1], r.key)
      IN  /\ (r.Difference # None) <=> (cb # None /\ ca # None)
          /\ r.Difference # None => r.Difference[1] = ca[1] - cb[1]
          /\ r.Status \in {"MATCH", "MISMATCH"} =>
               /\ r.Difference # None
               /\ (r.Status = "MATCH") <=> (r.Difference[1] = 0)
          /\ r.Status \in {"NEW TABLE", "DELETED TABLE", "PRESENT (no counts)"} =>
               r.Difference = None

\* a result with a MISMATCH row carrying after - before = 150 - 100 and a
\* DELETED row without a difference
C6_Witness ==
  /\ Returned
  /\ \E i \in 1..Len(result[1].rows) :
       /\ result[1].rows[i].Status = "MISMATCH"
       /\ result[1].rows[i].Difference = Some(50)
       /\ result[1].rows[i].After_Count = Some(150)
  /\ \E i \in 1..Len(result[1].rows) :
       /\ result[1].rows[i].Status = "DELETED TABLE"
       /\ result[1].rows[i].Difference = None

\* the place of a key in the order of first appearance, the before-file first
PlaceOf(k) ==
  IF k \in KeysOf(df_before[1])
    THEN CHOOSE i \in 1..Len(df_before[1].rows) : df_before[1].rows[i].key = k
    ELSE Len(df_before[1].rows)
         + (CHOOSE i \in 1..Len(df_after[1].rows) : df_after[1].rows[i].key = k)

\* C8 as claimed: the rows are ordered by status first and by table name second.
\* Whatever the fixed order of the statuses, the rows of one status are then
\* next to one another, and among them the names (compared as the keys, the
\* names trimmed and lower-cased) do not decrease.
C8_OrderedByStatusThenName ==
  Returned =>
    \A i \in 1..Len(result[1].rows) : \A j \in (i + 1)..Len(result[1].rows) :
      result[1].rows[i].Status = result[1].rows[j].Status =>
        /\ \A m \in i..j : result[1].rows[m].Status = result[1].rows[i].Status
        /\ ~StrLess(result[1].rows[j].key, result[1].rows[i].key)

\* C8 as amended: the rows are in the order the outer merge gives the keys, one
\* row per key: ascending by key, or in the order the keys first appear, the
\* before-file's keys first; the status plays no part.
C8_OrderedByMergeKey ==
  Returned =>
    \/ \A i \in 1..Len(result[1].rows) : \A j \in (i + 1)..Len(result[1].rows) :
         StrLess(result[1].rows[i].key, result[1].rows[j].key)
    \/ \A i \in 1..Len(result[1].rows) : \A j \in (i + 1)..Len(result[1].rows) :
         PlaceOf(result[1].rows[i].key) < PlaceOf(result[1].rows[j].key)

\* a result whose rows are in the order of the before-file, two rows of one
\* status with the names decreasing
C8_Witness ==
  /\ Returned
  /\ Len(result[1].rows) >= 2
  /\ result[1].rows[1].Status = result[1].rows[2].Status
  /\ StrLess(result[1].rows[2].key, result[1].rows[1].key)
  /\ PlaceOf(result[1].rows[1].key) < PlaceOf(result[1].rows[2].key)

(***************************************************************************)
(* Properties of parse_text_to_df, over its applications (SpecParser)      *)
(***************************************************************************)
\* parse_text_to_df has returned
Parsed == pc = "parsed_before"

\* find_table_name of each report line, "" for None
TableNameOf ==
  [line \in InputLines |->
     LET name(n) == IF n = None THEN "" ELSE n[1]
     IN  name(find_table_name(extract_tokens_from_line(line), line))]

\* the key a line gives: its table name trimmed and lower-cased
KeyOfLine == [line \in InputLines |-> Lower(Strip(TableNameOf[line]))]

\* the lines of a text that are rows of the frame before the duplicates are
\* dropped: not skipped and naming a table
NamedLines(lines) ==
  {i \in 1..Len(lines) : ParseLineOf[lines[i]] # None /\ KeyOfLine[lines[i]] # ""}

\* C7: parse_text_to_df returns at most one entry per key, and the entry of a
\* key is the one of the first line of the text that gives the key, with that
\* line's name and count (an absent count included); the later lines of the key
\* are dropped.
C7_FirstLineOfAKeyWins ==
  Parsed =>
    LET lines == SplitLines(f_before[1])
        rows  == df_before[1].rows
        named == NamedLines(lines)
    IN  /\ \A a \in 1..Len(rows) : \A b \in 1..Len(rows) :
             a # b => rows[a].key # rows[b].key
        /\ \A i \in named : \E a \in 1..Len(rows) : rows[a].key = KeyOfLine[lines[i]]
        /\ \A a \in 1..Len(rows) : \E i \in named :
             /\ KeyOfLine[lines[i]] = rows[a].key
             /\ \A h \in named : KeyOfLine[lines[h]] = rows[a].key => i <= h
             /\ rows[a].raw_line = lines[i]
             /\ rows[a].TableName = ParseLineOf[lines[i]][1].TableName
             /\ rows[a].Count = ParseLineOf[lines[i]][1].Count

\* a text of three lines of one key with three different counts, the first of
\* them absent, parsed to the one entry of its first line
C7_Witness ==
  /\ Parsed
  /\ LET lines == SplitLines(f_before[1])
     IN  /\ NamedLines(lines) = {1, 2, 3}
         /\ KeyOfLine[lines[1]] = KeyOfLine[lines[2]]
         /\ KeyOfLine[lines[2]] = KeyOfLine[lines[3]]
         /\ ParseLineOf[lines[1]][1].Count = None
         /\ ParseLineOf[lines[2]][1].Count # None
         /\ ParseLineOf[lines[3]][1].Count # None
         /\ ParseLineOf[lines[2]][1].Count # ParseLineOf[lines[3]][1].Count
         /\ Len(df_before[1].rows) = 1
         /\ df_before[1].rows[1].raw_line = lines[1]
         /\ df_before[1].rows[1].Count = None

\* the rows of the parsed frame that come from a line carrying the TABLE label
LabelledRows ==
  {a \in 1..Len(df_before[1].rows) : HasTableLabel(df_before[1].rows[a].raw_line)}

\* the rows whose count was picked by scoring the integer tokens of the line
ScoredRows ==
  {a \in 1..Len(df_before[1].rows) :
     df_before[1].rows[a].parse_reason.how = "picked by scoring"}

\* the rows whose count was picked by the index heuristics
IndexedRows ==
  {a \in 1..Len(df_before[1].rows) :
     df_before[1].rows[a].parse_reason.how \in
       {"picked from parts (near table name)",
        "picked from parts (first numeric after table name)"}}

\* C9 as claimed: one strategy produces all the entries of a call.  When a line
\* carrying the TABLE label gives an entry, every entry comes from such a line;
\* and scoring gives an entry only when no entry has its count from the index
\* heuristics.
C9_OneStrategyPerDocument ==
  Parsed =>
    /\ LabelledRows # {} => LabelledRows = 1..Len(df_before[1].rows)
    /\ ScoredRows # {} => IndexedRows = {}

\* a line the loop of parse_text_to_df does not skip: not blank, and holding
\* TABLE, a '|' or a digit
Accepted(line) ==
  /\ \E i \in 1..Len(line) : ~IsSpace(At(line, i))
  /\ \/ Contains(Upper(line), "TABLE")
     \/ \E i \in 1..Len(line) : At(line, i) = "|"
     \/ \E i \in 1..Len(line) : IsDigit(At(line, i))

\* C9 as amended: each line is parsed on its own, whatever the other lines of
\* the text are.  Every accepted line that names a table has its key in the
\* result, with or without the TABLE label, and every entry is the entry of an
\* accepted line, its count picked by the heuristic that applies to that line.
C9_EachLineParsedOnItsOwn ==
  Parsed =>
    LET lines == SplitLines(f_before[1])
        rows  == df_before[1].rows
    IN  /\ \A i \in 1..Len(lines) :
             (Accepted(lines[i]) /\ Strip(TableNameOf[lines[i]]) # "") =>
               \E a \in 1..Len(rows) : rows[a].key = KeyOfLine[lines[i]]
        /\ \A a \in 1..Len(rows) : \E i \in 1..Len(lines) :
             /\ Accepted(lines[i])
             /\ rows[a].raw_line = lines[i]
             /\ rows[a].TableName = TableNameOf[lines[i]]

\* a parsed text that mixes the strategies: an entry from a line with the TABLE
\* label, one from a line without it, and counts from the index heuristics and
\* from scoring
C9_Witness ==
  /\ Parsed
  /\ LabelledRows # {}
  /\ LabelledRows # 1..Len(df_before[1].rows)
  /\ ScoredRows # {}
  /\ IndexedRows # {}

\* the integer tokens of each report line with their scores, in line order
ScoredTokensOf == [line \in InputLines |-> ScoredTokens(line)]

\* the highest score among the tokens of a line
TopScore(toks) == MaxOf({toks[i].score : i \in 1..Len(toks)})

\* the highest score among the tokens of a line that have the value v
TopScoreOf(toks, v) == MaxOf({toks[i].score : i \in {j \in 1..Len(toks) : toks[j].val = v}})

\* the place of the first token of a line that has the value v
FirstPlaceOf(toks, v) == MinOf({i \in 1..Len(toks) : toks[i].val = v})

\* C10 as claimed: a count picked by scoring is the value of the highest-scoring
\* integer token of the line, and of the earliest of them in the line when
\* several share the highest score, also when a value occurs more than once.
C10_EarliestTopScoringToken ==
  Parsed =>
    \A a \in ScoredRows :
      LET toks == ScoredTokensOf[df_before[1].rows[a].raw_line]
      IN  df_before[1].rows[a].Count =
            Some(toks[MinOf({i \in 1..Len(toks) : toks[i].score = TopScore(toks)})].val)

\* C10 as amended: a count picked by scoring is a value whose best token has the
\* highest score of the line, and when several values have it, the one whose
\* first occurrence in the line (top-scoring or not) is the earliest.
C10_EarliestValueWithTopScore ==
  Parsed =>
    \A a \in ScoredRows :
      LET toks == ScoredTokensOf[df_before[1].rows[a].raw_line]
          r    == df_before[1].rows[a]
      IN  /\ r.Count # None
          /\ \E i \in 1..Len(toks) : toks[i].val = r.Count[1]
          /\ TopScoreOf(toks, r.Count[1]) = TopScore(toks)
          /\ r.parse_reason.score = TopScore(toks)
          /\ \A i \in 1..Len(toks) :
               TopScoreOf(toks, toks[i].val) = TopScore(toks) =>
                 FirstPlaceOf(toks, r.Count[1]) <= FirstPlaceOf(toks, toks[i].val)

\* a count picked by scoring in a line where a value occurs twice with different
\* scores and ties, by its second token, with a value that stands between: the
\* count is the twice-occurring value, not the earliest top-scoring token's
C10_Witness ==
  /\ Parsed
  /\ \E a \in ScoredRows :
       LET toks == ScoredTokensOf[df_before[1].rows[a].raw_line]
       IN  \E i \in 1..Len(toks) : \E j \in 1..Len(toks) : \E k \in 1..Len(toks) :
             /\ i < j /\ j < k
             /\ toks[i].val = toks[k].val
             /\ toks[j].val # toks[i].val
             /\ toks[i].score < toks[k].score
             /\ toks[j].score = TopScore(toks)
             /\ toks[k].score = TopScore(toks)
             /\ df_before[1].rows[a].Count = Some(toks[i].val)

====
